---- MODULE Spec2Model ----
(***************************************************************************)
(* Node session layer of 107-Arduino-Cyphal (src/src/Node.cpp): ingress    *)
(* buffer, transfer dispatch and subscription registry, transfer-id        *)
(* allocation and egress queue draining.  The transfer codec (libcanard)   *)
(* and the ingress ring buffer are collaborators whose code is not part of *)
(* the sources at hand; they are modelled from their documented contract.  *)
(***************************************************************************)
EXTENDS Integers, Sequences, FiniteSets, TLC

(***************************************************************************)
(* Bounds of the model                                                     *)
(***************************************************************************)
\* capacity of the ingress buffer (_canard_rx_queue)
RxQueueSize == 1
\* capacity of the codec's TX queue (tx_queue_capacity of the constructor)
TxQueueCapacity == 2
\* frames pushed into the TX queue over a run (enqueue sequence numbers)
MaxEnqueued == 2
\* getNextTransferId calls per port in the node specification
MaxRequests == 1
\* getNextTransferId calls per port in the allocator specification
MaxTidCalls == 33
\* capacity of the ingress buffer in the ingress specification
InQueueSize == 2
\* last reading of the microsecond clock
MaxMicros == 2

(***************************************************************************)
(* Program constants                                                       *)
(***************************************************************************)
\* modulus used by getNextTransferId
CANARD_TRANSFER_ID_MAX == 31
\* priority given to every transfer by enqeueTransfer
CanardPriorityNominal == 4
\* size of the payload array of a buffered frame: std::array<uint8_t, 8>
RxPayloadSize == 8
\* largest mtu_bytes the constructor is given (CAN FD)
CANARD_MTU_CAN_FD == 64

(***************************************************************************)
(* Input domains                                                           *)
(***************************************************************************)
Ports == {1, 2}
TransferKinds == {"Message", "Response", "Request"}
\* a CanardTransferKind value outside the enumeration, which the codec rejects
KindInputs == TransferKinds \cup {"Invalid"}
Callbacks == {"cbA", "cbB"}
FrameTransferIds == {0, 1}
\* number of CAN frames a pushed payload is split into
PayloadFrames == {1, 2}

NoEntry == "none"
NoRecord == -1
NoReturn == <<>>
NoTransfer == [kind |-> "none", port |-> 0, transfer_id |-> 0]
\* nothing handed to the codec yet: the arguments of the canardRxAccept call
\* (timestamp, payload_size, the payload bytes read), its result and what
\* receiveOne did with it
NoDispatch == [result |-> 0, transfer |-> NoTransfer, invoked |-> <<>>,
               act |-> "none", n_free |-> 0, rx_timestamp_us |-> 0,
               payload_size |-> 0, payload |-> <<>>]

VARIABLES
  rx_queue,         \* _canard_rx_queue: frames buffered by onCanFrameReceived
  rx_transfer_map,  \* _rx_transfer_map: port id -> transfer_complete_callback
  canard_rx_subs,   \* subscriptions held by the codec: <<kind, port id>>
  tx_transfer_map,  \* _tx_transfer_map: port id -> last issued transfer id
  tx_queue,         \* _canard_tx_queue: frames pending transmission
  transmit_func,    \* _transmit_func holds a callable
  pc,               \* position of the cooperative context
  next_seq,         \* enqueue sequence number of the next pushed frame
  tx_log,           \* sequence numbers accepted by the transmit function
  blocked,          \* sequence number refused by the transmit function, or 0
  last,             \* what the receiveOne of this receive phase did last
  ret,              \* <<return value>> of the API call made last since
                    \* spin() returned (1 = true, 0 = false), or NoReturn
  latest,           \* per port: callback of the most recent subscribe call
  tid_calls,        \* per port: number of getNextTransferId calls
  spin_enq,         \* sequence numbers pushed by callbacks in this spin()
  rx_capacity,      \* capacity _canard_rx_queue was constructed with
  node_id,          \* _canard_hdl.node_id
  micros,           \* reading of the clock: micros()
  request_tid       \* per port: transfer id last issued for a Request

vars == <<rx_queue, rx_transfer_map, canard_rx_subs, tx_transfer_map, tx_queue,
          transmit_func, pc, next_seq, tx_log, blocked, last, ret, latest,
          tid_calls, spin_enq, rx_capacity, node_id, micros, request_tid>>

\* what only the constructor, setNodeId and the clock change
env == <<rx_capacity, node_id, micros>>

(***************************************************************************)
(* The node as a value, so that a handler's calls compose                  *)
(***************************************************************************)
NodeState ==
  [rx_transfer_map |-> rx_transfer_map,
   canard_rx_subs  |-> canard_rx_subs,
   tx_transfer_map |-> tx_transfer_map,
   tx_queue        |-> tx_queue,
   next_seq        |-> next_seq,
   latest          |-> latest,
   spin_enq        |-> spin_enq,
   did             |-> NoDispatch,
   result          |-> 0,
   success         |-> FALSE]

Install(n) ==
  /\ rx_transfer_map' = n.rx_transfer_map
  /\ canard_rx_subs' = n.canard_rx_subs
  /\ tx_transfer_map' = n.tx_transfer_map
  /\ tx_queue' = n.tx_queue
  /\ next_seq' = n.next_seq
  /\ latest' = n.latest
  /\ spin_enq' = n.spin_enq

(***************************************************************************)
(* Transfer codec (libcanard), from its contract                           *)
(***************************************************************************)
\* canardRxSubscribe: 1 = created, 0 = replaced, negative = rejected
canardRxSubscribe(subs, kind, port) ==
  IF kind \notin TransferKinds
    THEN [result |-> -2, subs |-> subs]
    ELSE [result |-> IF <<kind, port>> \in subs THEN 0 ELSE 1,
          subs   |-> subs \cup {<<kind, port>>}]

\* canardRxUnsubscribe: 1 = removed, 0 = nothing to remove, negative = rejected
canardRxUnsubscribe(subs, kind, port) ==
  IF kind \notin TransferKinds
    THEN [result |-> -2, subs |-> subs]
    ELSE [result |-> IF <<kind, port>> \in subs THEN 1 ELSE 0,
          subs   |-> subs \ {<<kind, port>>}]

\* canardRxAccept: 1 with the transfer when the frame completes a transfer on a
\* port the codec holds a subscription for, 0 otherwise
canardRxAccept(subs, frame) ==
  IF frame.complete /\ <<frame.kind, frame.port>> \in subs
    THEN [result |-> 1,
          transfer |-> [kind |-> frame.kind, port |-> frame.port,
                        transfer_id |-> frame.transfer_id]]
    ELSE [result |-> 0, transfer |-> NoTransfer]

\* position at which a frame of the given priority enters the queue: behind
\* every frame of lower or equal priority value
RECURSIVE TxInsertAt(_, _)
TxInsertAt(q, priority) ==
  IF q = <<>> \/ Head(q).priority > priority
    THEN 0
    ELSE 1 + TxInsertAt(Tail(q), priority)

TxInsert(q, item) ==
  LET k == TxInsertAt(q, item.priority)
  IN  SubSeq(q, 1, k) \o <<item>> \o SubSeq(q, k + 1, Len(q))

\* canardTxPush: the transfer's frames enter the queue, or none does
canardTxPush(q, seq0, metadata, n_frames) ==
  IF Len(q) + n_frames > TxQueueCapacity
    THEN [result |-> -3, queue |-> q]
    ELSE LET item(i) == [seq |-> seq0 + i, priority |-> metadata.priority,
                         kind |-> metadata.transfer_kind,
                         port |-> metadata.port_id,
                         transfer_id |-> metadata.transfer_id]
             first == TxInsert(q, item(0))
         IN  [result |-> n_frames,
              queue  |-> IF n_frames = 1 THEN first
                         ELSE TxInsert(first, item(1))]

\* canardTxPeek: the frame to transmit next, none when the queue is empty
canardTxPeek(q) == IF q = <<>> THEN <<>> ELSE <<Head(q)>>

\* canardTxPop: the queue without the item
canardTxPop(q, item) == SelectSeq(q, LAMBDA f : f.seq # item.seq)

(***************************************************************************)
(* Node::getNextTransferId                                                 *)
(***************************************************************************)
\* mutant: the id is incremented without wrapping
getNextTransferId_NoWrap(n, port_id) ==
  LET next_transfer_id ==
        IF n.tx_transfer_map[port_id] # NoRecord
          THEN n.tx_transfer_map[port_id] + 1
          ELSE 0
  IN  [n EXCEPT !.tx_transfer_map[port_id] = next_transfer_id,
                !.result = next_transfer_id]

getNextTransferId(n, port_id) ==
  LET next_transfer_id ==
        IF n.tx_transfer_map[port_id] # NoRecord
          THEN (n.tx_transfer_map[port_id] + 1) % CANARD_TRANSFER_ID_MAX
          ELSE 0
  IN  [n EXCEPT !.tx_transfer_map[port_id] = next_transfer_id,
                !.result = next_transfer_id]

(***************************************************************************)
(* Node::subscribe, Node::unsubscribe                                      *)
(***************************************************************************)
\* mutant: a callback already registered for the port is kept
subscribe_KeepExisting(n, transfer_kind, port_id, func) ==
  LET rx == canardRxSubscribe(n.canard_rx_subs, transfer_kind, port_id)
  IN  [n EXCEPT !.rx_transfer_map[port_id] = IF @ = NoEntry THEN func ELSE @,
                !.canard_rx_subs = rx.subs,
                !.result = rx.result,
                !.success = (rx.result >= 0)]

subscribe(n, transfer_kind, port_id, func) ==
  LET rx == canardRxSubscribe(n.canard_rx_subs, transfer_kind, port_id)
  IN  [n EXCEPT !.rx_transfer_map[port_id] = func,
                !.canard_rx_subs = rx.subs,
                !.result = rx.result,
                !.success = (rx.result >= 0)]

\* mutant: the entry is erased only when the codec reports success
unsubscribe_EraseOnSuccess(n, transfer_kind, port_id) ==
  LET rx == canardRxUnsubscribe(n.canard_rx_subs, transfer_kind, port_id)
  IN  [n EXCEPT !.rx_transfer_map[port_id] =
                   IF rx.result >= 0 THEN NoEntry ELSE @,
                !.canard_rx_subs = rx.subs,
                !.result = rx.result,
                !.success = (rx.result >= 0)]

unsubscribe(n, transfer_kind, port_id) ==
  LET rx == canardRxUnsubscribe(n.canard_rx_subs, transfer_kind, port_id)
  IN  [n EXCEPT !.rx_transfer_map[port_id] = NoEntry,
                !.canard_rx_subs = rx.subs,
                !.result = rx.result,
                !.success = (rx.result >= 0)]

\* a call of subscribe / unsubscribe, noted as the most recent one on the port
CallSubscribe(n, transfer_kind, port_id, func) ==
  [subscribe(n, transfer_kind, port_id, func) EXCEPT !.latest[port_id] = func]

CallUnsubscribe(n, transfer_kind, port_id) ==
  [unsubscribe(n, transfer_kind, port_id) EXCEPT !.latest[port_id] = NoEntry]

(***************************************************************************)
(* Node::enqeueTransfer                                                    *)
(***************************************************************************)
enqeueTransfer(n, transfer_kind, port_id, n_frames, transfer_id) ==
  LET transfer_metadata ==
        [priority      |-> CanardPriorityNominal,
         transfer_kind |-> transfer_kind,
         port_id       |-> port_id,
         transfer_id   |-> transfer_id]
      tx == canardTxPush(n.tx_queue, n.next_seq, transfer_metadata, n_frames)
  IN  [n EXCEPT !.tx_queue = tx.queue,
                !.next_seq = IF tx.result >= 0 THEN @ + n_frames ELSE @,
                !.result = tx.result,
                !.success = (tx.result >= 0)]

(***************************************************************************)
(* Subscription callbacks: what user code may do with the node while it    *)
(* handles a transfer                                                      *)
(***************************************************************************)
CallbackActs(ops, n, transfer) ==
  {[op |-> "none", func |-> NoEntry]}
    \cup (IF "subscribe" \in ops
            THEN {[op |-> "subscribe", func |-> f] : f \in Callbacks} ELSE {})
    \cup (IF "unsubscribe" \in ops
            THEN {[op |-> "unsubscribe", func |-> NoEntry]} ELSE {})
    \cup (IF "respond" \in ops /\ transfer.kind = "Request"
               /\ n.next_seq <= MaxEnqueued
            THEN {[op |-> "respond", func |-> NoEntry]} ELSE {})

\* transfer_received_func(transfer, *this)
InvokeCallback(n, func, transfer, act) ==
  LET m == [n EXCEPT !.did.invoked = Append(@, func), !.did.act = act.op]
  IN  CASE act.op = "subscribe" ->
             CallSubscribe(m, transfer.kind, transfer.port, act.func)
        [] act.op = "unsubscribe" ->
             CallUnsubscribe(m, transfer.kind, transfer.port)
        [] act.op = "respond" ->
             LET e == enqeueTransfer(m, "Response", transfer.port, 1,
                                     transfer.transfer_id)
             IN  [e EXCEPT !.spin_enq = IF e.success
                                          THEN @ \cup {m.next_seq} ELSE @]
        [] OTHER -> m

(***************************************************************************)
(* Node::receiveOne                                                        *)
(***************************************************************************)
\* mutant: any transfer id is taken once a record exists for the port
ResponseMatches_AnyId(n, transfer) ==
  n.tx_transfer_map[transfer.port] # NoRecord

\* line 115: a pending record exists for the port and equals the transfer id
ResponseMatches(n, transfer) ==
  /\ n.tx_transfer_map[transfer.port] # NoRecord
  /\ n.tx_transfer_map[transfer.port] = transfer.transfer_id

\* line 125: _canard_hdl.memory_free(&_canard_hdl, transfer.payload)
memory_free(n) == [n EXCEPT !.did.n_free = @ + 1]

\* mutant: the Response subscription is removed before the callback runs
Dispatch_UnsubscribeFirst(n, transfer, act) ==
  IF n.rx_transfer_map[transfer.port] # NoEntry
    THEN LET transfer_received_func == n.rx_transfer_map[transfer.port]
         IN  IF transfer.kind = "Response"
               THEN IF ResponseMatches(n, transfer)
                      THEN InvokeCallback(
                             CallUnsubscribe(n, "Response", transfer.port),
                             transfer_received_func, transfer, act)
                      ELSE n
               ELSE InvokeCallback(n, transfer_received_func, transfer, act)
    ELSE n

\* mutant: every subscription is single-shot, whatever the transfer kind
Dispatch_AlwaysUnsubscribe(n, transfer, act) ==
  IF n.rx_transfer_map[transfer.port] # NoEntry
    THEN LET transfer_received_func == n.rx_transfer_map[transfer.port]
         IN  IF transfer.kind # "Response" \/ ResponseMatches(n, transfer)
               THEN CallUnsubscribe(
                      InvokeCallback(n, transfer_received_func, transfer, act),
                      transfer.kind, transfer.port)
               ELSE n
    ELSE n

\* lines 110 - 123: the dispatch of a reassembled transfer
Dispatch(n, transfer, act) ==
  IF n.rx_transfer_map[transfer.port] # NoEntry
    THEN LET transfer_received_func == n.rx_transfer_map[transfer.port]
         IN  IF transfer.kind = "Response"
               THEN IF ResponseMatches(n, transfer)
                      THEN CallUnsubscribe(
                             InvokeCallback(n, transfer_received_func,
                                            transfer, act),
                             "Response", transfer.port)
                      ELSE n
               ELSE InvokeCallback(n, transfer_received_func, transfer, act)
    ELSE n

\* mutant: the payload is released only on the paths that found a subscriber
receiveOne_FreeIfRegistered(n, frame, rx_timestamp_us, act) ==
  LET rx == canardRxAccept(n.canard_rx_subs, frame)
      m  == [n EXCEPT !.did = [NoDispatch EXCEPT
                                 !.result = rx.result,
                                 !.transfer = rx.transfer,
                                 !.rx_timestamp_us = rx_timestamp_us,
                                 !.payload_size = frame.payload_size,
                                 !.payload = frame.payload]]
  IN  IF rx.result = 1
        THEN IF n.rx_transfer_map[rx.transfer.port] # NoEntry
               THEN memory_free(Dispatch(m, rx.transfer, act))
               ELSE m
        ELSE m

receiveOne(n, frame, rx_timestamp_us, act) ==
  LET rx == canardRxAccept(n.canard_rx_subs, frame)
      m  == [n EXCEPT !.did = [NoDispatch EXCEPT
                                 !.result = rx.result,
                                 !.transfer = rx.transfer,
                                 !.rx_timestamp_us = rx_timestamp_us,
                                 !.payload_size = frame.payload_size,
                                 !.payload = frame.payload]]
  IN  IF rx.result = 1
        THEN memory_free(Dispatch(m, rx.transfer, act))
        ELSE m

(***************************************************************************)
(* Node::transmitOne                                                       *)
(***************************************************************************)
\* mutant: a refused frame is popped like a transmitted one
transmitOne_DropRefused(q, has_func, accepted) ==
  IF ~has_func
    THEN [result |-> FALSE, queue |-> q, sent |-> <<>>, refused |-> <<>>]
    ELSE LET tx_queue_item == canardTxPeek(q)
         IN  IF tx_queue_item = <<>>
               THEN [result |-> FALSE, queue |-> q, sent |-> <<>>,
                     refused |-> <<>>]
               ELSE IF ~accepted
                      THEN [result |-> FALSE,
                            queue  |-> canardTxPop(q, tx_queue_item[1]),
                            sent |-> <<>>, refused |-> tx_queue_item]
                      ELSE [result |-> TRUE,
                            queue  |-> canardTxPop(q, tx_queue_item[1]),
                            sent   |-> tx_queue_item, refused |-> <<>>]

\* mutant: a transmitted frame stays in the queue
transmitOne_NoPop(q, has_func, accepted) ==
  IF ~has_func
    THEN [result |-> FALSE, queue |-> q, sent |-> <<>>, refused |-> <<>>]
    ELSE LET tx_queue_item == canardTxPeek(q)
         IN  IF tx_queue_item = <<>>
               THEN [result |-> FALSE, queue |-> q, sent |-> <<>>,
                     refused |-> <<>>]
               ELSE IF ~accepted
                      THEN [result |-> FALSE, queue |-> q, sent |-> <<>>,
                            refused |-> tx_queue_item]
                      ELSE [result |-> TRUE, queue |-> q,
                            sent   |-> tx_queue_item, refused |-> <<>>]

\* accepted: the answer of the transmit function for the frame it is offered
transmitOne(q, has_func, accepted) ==
  IF ~has_func
    THEN [result |-> FALSE, queue |-> q, sent |-> <<>>, refused |-> <<>>]
    ELSE LET tx_queue_item == canardTxPeek(q)
         IN  IF tx_queue_item = <<>>
               THEN [result |-> FALSE, queue |-> q, sent |-> <<>>,
                     refused |-> <<>>]
               ELSE IF ~accepted
                      THEN [result |-> FALSE, queue |-> q, sent |-> <<>>,
                            refused |-> tx_queue_item]
                      ELSE [result |-> TRUE,
                            queue  |-> canardTxPop(q, tx_queue_item[1]),
                            sent   |-> tx_queue_item, refused |-> <<>>]

(***************************************************************************)
(* Ingress buffer                                                          *)
(***************************************************************************)
\* enqueue: a frame offered to a full buffer is dropped
RingEnqueue(q, frame) == IF Len(q) < rx_capacity THEN Append(q, frame) ELSE q

(***************************************************************************)
(* Frames on their way through the ingress buffer                          *)
(***************************************************************************)
\* lines 55 - 62: the tuple onCanFrameReceived buffers for a frame: its id,
\* its payload_size as given, the first min(payload_size, 8) payload bytes
\* in a zero-filled array of 8, and the arrival timestamp
StoreFrame(frame, rx_timestamp_us) ==
  LET copied == IF frame.payload_size < RxPayloadSize
                  THEN frame.payload_size ELSE RxPayloadSize
  IN  [kind            |-> frame.kind,
       port            |-> frame.port,
       transfer_id     |-> frame.transfer_id,
       complete        |-> frame.complete,
       payload_size    |-> frame.payload_size,
       payload         |-> [i \in 1..RxPayloadSize |->
                              IF i <= copied THEN frame.payload[i] ELSE 0],
       rx_timestamp_us |-> rx_timestamp_us]

\* what a read past the end of the payload array may find
GarbageBytes == {0, 255}
OutOfBounds(payload_size) ==
  IF payload_size > RxPayloadSize
    THEN [1..(payload_size - RxPayloadSize) -> GarbageBytes]
    ELSE {<<>>}

\* lines 85 - 90: the frame handle_receive builds from a buffered tuple;
\* payload points at the array of 8, so the payload_size bytes the codec
\* reads there are the array followed by whatever lies behind it
CodecFrame(entry, oob) ==
  [kind         |-> entry.kind,
   port         |-> entry.port,
   transfer_id  |-> entry.transfer_id,
   complete     |-> entry.complete,
   payload_size |-> entry.payload_size,
   payload      |-> SubSeq(entry.payload \o oob, 1, entry.payload_size)]

(***************************************************************************)
(* Initial state: the node after construction                              *)
(***************************************************************************)
Construct(capacity) ==
  /\ rx_queue = <<>>
  /\ rx_transfer_map = [p \in Ports |-> NoEntry]
  /\ canard_rx_subs = {}
  /\ tx_transfer_map = [p \in Ports |-> NoRecord]
  /\ tx_queue = <<>>
  /\ transmit_func \in BOOLEAN
  /\ pc = "idle"
  /\ next_seq = 1
  /\ tx_log = <<>>
  /\ blocked = 0
  /\ last = NoDispatch
  /\ ret = NoReturn
  /\ latest = [p \in Ports |-> NoEntry]
  /\ tid_calls = [p \in Ports |-> 0]
  /\ spin_enq = {}
  /\ rx_capacity = capacity
  /\ node_id = 1
  /\ micros = 0
  /\ request_tid = [p \in Ports |-> NoRecord]

Init == Construct(RxQueueSize)

(***************************************************************************)
(* API calls from the cooperative context                                  *)
(***************************************************************************)
Bool2Int(b) == IF b THEN 1 ELSE 0

Subscribe(transfer_kind, port_id, func) ==
  /\ pc = "idle"
  /\ LET n == CallSubscribe(NodeState, transfer_kind, port_id, func)
     IN  Install(n) /\ ret' = <<Bool2Int(n.success)>>
  /\ UNCHANGED <<rx_queue, transmit_func, pc, tx_log, blocked, last, tid_calls,
                 request_tid, env>>

Unsubscribe(transfer_kind, port_id) ==
  /\ pc = "idle"
  /\ LET n == CallUnsubscribe(NodeState, transfer_kind, port_id)
     IN  Install(n) /\ ret' = <<Bool2Int(n.success)>>
  /\ UNCHANGED <<rx_queue, transmit_func, pc, tx_log, blocked, last, tid_calls,
                 request_tid, env>>

\* the caller allocates the id for a transfer of the kind it then enqueues
GetNextTransferIdFor(transfer_kind, port_id) ==
  /\ pc = "idle"
  /\ LET n == getNextTransferId(NodeState, port_id)
     IN  /\ Install(n)
         /\ ret' = <<n.result>>
         /\ request_tid' = IF transfer_kind = "Request"
                             THEN [request_tid EXCEPT ![port_id] = n.result]
                             ELSE request_tid
  /\ tid_calls' = [tid_calls EXCEPT ![port_id] = @ + 1]
  /\ UNCHANGED <<rx_queue, transmit_func, pc, tx_log, blocked, last, env>>

GetNextTransferId(port_id) == GetNextTransferIdFor("Request", port_id)

\* Node::setNodeId
SetNodeId(id) ==
  /\ pc = "idle"
  /\ node_id' = id
  /\ UNCHANGED <<rx_queue, rx_transfer_map, canard_rx_subs, tx_transfer_map,
                 tx_queue, transmit_func, pc, next_seq, tx_log, blocked, last,
                 ret, latest, tid_calls, spin_enq, rx_capacity, micros,
                 request_tid>>

\* the clock of micros() advances
Tick ==
  /\ micros < MaxMicros
  /\ micros' = micros + 1
  /\ UNCHANGED <<rx_queue, rx_transfer_map, canard_rx_subs, tx_transfer_map,
                 tx_queue, transmit_func, pc, next_seq, tx_log, blocked, last,
                 ret, latest, tid_calls, spin_enq, rx_capacity, node_id,
                 request_tid>>

EnqeueTransfer(transfer_kind, port_id, n_frames, transfer_id) ==
  /\ pc = "idle"
  /\ next_seq + n_frames - 1 <= MaxEnqueued
  /\ LET n == enqeueTransfer(NodeState, transfer_kind, port_id, n_frames,
                             transfer_id)
     IN  Install(n) /\ ret' = <<Bool2Int(n.success)>>
  /\ UNCHANGED <<rx_queue, transmit_func, pc, tx_log, blocked, last, tid_calls,
                 request_tid, env>>

(***************************************************************************)
(* Node::onCanFrameReceived, from the transport driver's context           *)
(***************************************************************************)
\* the call: the buffer it leaves and what it returns, which is nothing (void)
onCanFrameReceived(q, frame, rx_timestamp_us) ==
  [rx_queue |-> RingEnqueue(q, StoreFrame(frame, rx_timestamp_us)),
   ret      |-> NoReturn]

\* mutant: the frame is also handed to the codec from the driver's context
OnCanFrameReceived_Decode(frame, rx_timestamp_us) ==
  /\ rx_queue' = onCanFrameReceived(rx_queue, frame, rx_timestamp_us).rx_queue
  /\ LET n == receiveOne(NodeState, frame, rx_timestamp_us,
                         [op |-> "none", func |-> NoEntry])
     IN  Install(n) /\ last' = n.did
  /\ UNCHANGED <<transmit_func, pc, tx_log, blocked, ret, tid_calls,
                 request_tid, env>>

OnCanFrameReceived(frame, rx_timestamp_us) ==
  /\ rx_queue' = onCanFrameReceived(rx_queue, frame, rx_timestamp_us).rx_queue
  /\ UNCHANGED <<rx_transfer_map, canard_rx_subs, tx_transfer_map, tx_queue,
                 transmit_func, pc, next_seq, tx_log, blocked, last, ret,
                 latest, tid_calls, spin_enq, request_tid, env>>

(***************************************************************************)
(* Node::spin: handle_receive, then handle_transmit                        *)
(***************************************************************************)
\* mutant: the egress queue is drained before the ingress buffer
spin_phases_TransmitFirst == <<"transmit", "receive">>

\* the calls spin() makes, in order
spin_phases == <<"receive", "transmit">>

\* where the cooperative context goes when a phase of spin() returns
AfterPhase(phase) ==
  LET i == CHOOSE k \in 1..Len(spin_phases) : spin_phases[k] = phase
  IN  IF i < Len(spin_phases) THEN spin_phases[i + 1] ELSE "idle"

Spin ==
  /\ pc = "idle"
  /\ pc' = spin_phases[1]
  /\ spin_enq' = {}
  /\ ret' = NoReturn
  /\ UNCHANGED <<rx_queue, rx_transfer_map, canard_rx_subs, tx_transfer_map,
                 tx_queue, transmit_func, next_seq, tx_log, blocked, last,
                 latest, tid_calls, request_tid, env>>

\* mutant: the frame buffered last is dequeued first
ReceiveHead_Newest(ops) ==
  /\ \E oob \in OutOfBounds(rx_queue[Len(rx_queue)].payload_size) :
       LET frame == CodecFrame(rx_queue[Len(rx_queue)], oob)
           rx == canardRxAccept(canard_rx_subs, frame)
       IN  \E act \in CallbackActs(ops, NodeState, rx.transfer) :
             LET n == receiveOne(NodeState, frame, micros, act)
             IN  Install(n) /\ last' = n.did
  /\ rx_queue' = SubSeq(rx_queue, 1, Len(rx_queue) - 1)
  /\ UNCHANGED <<transmit_func, tx_log, blocked, ret, tid_calls, request_tid,
                 env>>

\* mutant: the dequeue leaves the buffer empty, whatever arrived behind the head
ReceiveHead_Clobber(ops) ==
  /\ \E oob \in OutOfBounds(Head(rx_queue).payload_size) :
       LET frame == CodecFrame(Head(rx_queue), oob)
           rx == canardRxAccept(canard_rx_subs, frame)
       IN  \E act \in CallbackActs(ops, NodeState, rx.transfer) :
             LET n == receiveOne(NodeState, frame, micros, act)
             IN  Install(n) /\ last' = n.did
  /\ rx_queue' = <<>>
  /\ UNCHANGED <<transmit_func, tx_log, blocked, ret, tid_calls, request_tid,
                 env>>

\* lines 85 - 92: the head of the buffer is dequeued and handed to receiveOne
\* with the reading of micros()
ReceiveHead(ops) ==
  /\ \E oob \in OutOfBounds(Head(rx_queue).payload_size) :
       LET frame == CodecFrame(Head(rx_queue), oob)
           rx == canardRxAccept(canard_rx_subs, frame)
       IN  \E act \in CallbackActs(ops, NodeState, rx.transfer) :
             LET n == receiveOne(NodeState, frame, micros, act)
             IN  Install(n) /\ last' = n.did
  /\ rx_queue' = Tail(rx_queue)
  /\ UNCHANGED <<transmit_func, tx_log, blocked, ret, tid_calls, request_tid,
                 env>>

\* one iteration of the loop of handle_receive
HandleReceive(ops) ==
  /\ pc = "receive"
  /\ rx_queue # <<>>
  /\ ReceiveHead(ops)
  /\ UNCHANGED pc

\* the same loop in the steps a frame arrival may come between: line 83, the
\* test of the buffer ...
HandleReceiveTest ==
  /\ pc = "receive"
  /\ rx_queue # <<>>
  /\ pc' = "dequeue"
  /\ UNCHANGED <<rx_queue, rx_transfer_map, canard_rx_subs, tx_transfer_map,
                 tx_queue, transmit_func, next_seq, tx_log, blocked, last, ret,
                 latest, tid_calls, spin_enq, request_tid, env>>

\* ... and lines 85 - 92, the dequeue and the receiveOne of what it returned
HandleReceiveDequeue(ops) ==
  /\ pc = "dequeue"
  /\ ReceiveHead(ops)
  /\ pc' = "receive"

\* the loop of handle_receive ends on an empty buffer
HandleReceiveDone ==
  /\ pc = "receive"
  /\ rx_queue = <<>>
  /\ pc' = AfterPhase("receive")
  /\ last' = NoDispatch
  /\ UNCHANGED <<rx_queue, rx_transfer_map, canard_rx_subs, tx_transfer_map,
                 tx_queue, transmit_func, next_seq, tx_log, blocked, ret,
                 latest, tid_calls, spin_enq, request_tid, env>>

\* one iteration of the loop of handle_transmit
HandleTransmit(accepted) ==
  /\ pc = "transmit"
  /\ LET tx == transmitOne(tx_queue, transmit_func, accepted)
     IN  /\ tx_queue' = tx.queue
         /\ tx_log' = IF tx.sent # <<>> THEN Append(tx_log, tx.sent[1].seq)
                      ELSE tx_log
         /\ blocked' = IF tx.refused # <<>> THEN tx.refused[1].seq
                       ELSE IF tx.sent # <<>> THEN 0 ELSE blocked
         /\ pc' = IF tx.result THEN "transmit" ELSE AfterPhase("transmit")
  /\ UNCHANGED <<rx_queue, rx_transfer_map, canard_rx_subs, tx_transfer_map,
                 transmit_func, next_seq, last, ret, latest, tid_calls,
                 spin_enq, request_tid, env>>

(***************************************************************************)
(* Specifications                                                          *)
(***************************************************************************)
\* the subscriptions the registry specification asks for: every kind on port
\* 1, messages on port 2
RxSubscriptions == (KindInputs \X {1}) \cup ({"Message"} \X {2})

\* frames the transport driver delivers: a response of either transfer id, a
\* message and a request on port 1, a message on port 2 (each completing its
\* transfer), and a frame that completes none
RxFrames ==
  {[kind |-> "Response", port |-> 1, transfer_id |-> t, complete |-> TRUE,
     payload_size |-> 0, payload |-> <<>>] :
     t \in FrameTransferIds}
    \cup {[kind |-> k, port |-> 1, transfer_id |-> 0, complete |-> TRUE,
           payload_size |-> 0, payload |-> <<>>] :
            k \in {"Message", "Request"}}
    \cup {[kind |-> "Message", port |-> 2, transfer_id |-> 0,
           complete |-> TRUE, payload_size |-> 0, payload |-> <<>>],
          [kind |-> "Message", port |-> 1, transfer_id |-> 0,
           complete |-> FALSE, payload_size |-> 0, payload |-> <<>>]}

\* the transfer-id allocator
NextTid ==
  \E p \in Ports : tid_calls[p] < MaxTidCalls /\ GetNextTransferId(p)

SpecTid == Init /\ [][NextTid]_vars

\* the subscription registry and the transfer dispatcher
NextRx ==
  \/ \E s \in RxSubscriptions, f \in Callbacks : Subscribe(s[1], s[2], f)
  \/ \E s \in RxSubscriptions : Unsubscribe(s[1], s[2])
  \/ \E p \in Ports : tid_calls[p] < MaxRequests /\ GetNextTransferId(p)
  \/ \E frame \in RxFrames : OnCanFrameReceived(frame, micros)
  \/ Spin
  \/ HandleReceive({"subscribe", "unsubscribe"})
  \/ HandleReceiveDone
  \/ \E accepted \in BOOLEAN : HandleTransmit(accepted)

\* the dispatcher never reads the transmit function
InitRx == Init /\ transmit_func

SpecRx == InitRx /\ [][NextRx]_vars

\* the egress queue
NextTx ==
  \/ \E k \in {"Message", "Request"}, p \in Ports, nf \in PayloadFrames,
        t \in FrameTransferIds : EnqeueTransfer(k, p, nf, t)
  \/ Spin
  \/ HandleReceiveDone
  \/ \E accepted \in BOOLEAN : HandleTransmit(accepted)

\* spin() is called again and again and runs to its end; the transmit function
\* does not refuse for ever
FairTx ==
  /\ WF_vars(Spin)
  /\ WF_vars(HandleReceiveDone)
  /\ SF_vars(HandleTransmit(TRUE))

SpecTx == Init /\ [][NextTx]_vars /\ FairTx

\* the node as a whole: a service on port 1 whose callback answers each
\* request, and a publisher on port 2
NodeFrames ==
  {[kind |-> "Request", port |-> 1, transfer_id |-> t, complete |-> TRUE,
    payload_size |-> 0, payload |-> <<>>] :
     t \in FrameTransferIds}

NodeIds == {1, 2}

Next ==
  \/ \E id \in NodeIds : SetNodeId(id)
  \/ \E f \in Callbacks : Subscribe("Request", 1, f)
  \/ Unsubscribe("Request", 1)
  \/ tid_calls[2] < MaxRequests /\ GetNextTransferId(2)
  \/ \E nf \in PayloadFrames :
       tx_transfer_map[2] # NoRecord
         /\ EnqeueTransfer("Message", 2, nf, tx_transfer_map[2])
  \/ \E frame \in NodeFrames : OnCanFrameReceived(frame, micros)
  \/ Spin
  \/ HandleReceive({"respond"})
  \/ HandleReceiveDone
  \/ \E accepted \in BOOLEAN : HandleTransmit(accepted)

Spec == Init /\ [][Next]_vars

\* the ingress buffer between the transport driver, which may preempt the
\* cooperative context anywhere, and the drain loop of spin(): messages on
\* port 1 with payloads of 1, 8 and 12 bytes
InPayloadSizes == {size \in {1, 8, 12} : size <= CANARD_MTU_CAN_FD}
InPayload(size) == [i \in 1..size |-> i]
InFrames ==
  {[kind |-> "Message", port |-> 1, transfer_id |-> 0, complete |-> TRUE,
    payload_size |-> size, payload |-> InPayload(size)] :
     size \in InPayloadSizes}

NextIn ==
  \/ Subscribe("Message", 1, "cbA")
  \/ Tick
  \/ \E frame \in InFrames : OnCanFrameReceived(frame, micros)
  \/ Spin
  \/ HandleReceiveTest
  \/ HandleReceiveDequeue({})
  \/ HandleReceiveDone
  \/ \E accepted \in BOOLEAN : HandleTransmit(accepted)

InitIn == Construct(InQueueSize) /\ transmit_func

SpecIn == InitIn /\ [][NextIn]_vars

\* a client of the service on port 1 that also publishes on subject 1: transfer
\* ids are allocated for requests and for messages, responses come in
ReqFrames ==
  {[kind |-> "Response", port |-> 1, transfer_id |-> t, complete |-> TRUE,
    payload_size |-> 0, payload |-> <<>>] :
     t \in FrameTransferIds}

NextReq ==
  \/ \E k \in {"Request", "Message"} :
       tid_calls[1] < MaxRequests + 1 /\ GetNextTransferIdFor(k, 1)
  \/ \E f \in Callbacks : Subscribe("Response", 1, f)
  \/ \E frame \in ReqFrames : OnCanFrameReceived(frame, micros)
  \/ Spin
  \/ HandleReceive({})
  \/ HandleReceiveDone
  \/ \E accepted \in BOOLEAN : HandleTransmit(accepted)

SpecReq == InitRx /\ [][NextReq]_vars

(***************************************************************************)
(* Steps and observations the properties are stated over                   *)
(***************************************************************************)
\* a step of the receive loop that is not a frame arriving: one receiveOne
DispatchStep ==
  /\ pc = "receive"
  /\ pc' = "receive"
  /\ rx_queue # <<>>
  /\ Len(rx_queue') # Len(rx_queue) + 1

\* what the codec answers for the frame receiveOne is about to be given
Accepted == canardRxAccept(canard_rx_subs, Head(rx_queue))
Reassembled == Accepted.result = 1
Registered(port) == rx_transfer_map[port] # NoEntry
Pending(transfer) ==
  /\ tx_transfer_map[transfer.port] # NoRecord
  /\ tx_transfer_map[transfer.port] = transfer.transfer_id

(***************************************************************************)
(* C1: a reassembled Response on a registered port invokes the callback    *)
(* if and only if the pending record of the port exists and equals the     *)
(* transfer id; otherwise no callback runs and the registry and the        *)
(* codec's subscriptions stay as they were.                                *)
(***************************************************************************)
C1_ResponseCorrelation ==
  [][(DispatchStep /\ Reassembled /\ Accepted.transfer.kind = "Response"
        /\ Registered(Accepted.transfer.port))
       => /\ (last'.invoked # <<>>) <=> Pending(Accepted.transfer)
          /\ last'.invoked # <<>>
               => last'.invoked = <<rx_transfer_map[Accepted.transfer.port]>>
          /\ last'.invoked = <<>>
               => /\ rx_transfer_map' = rx_transfer_map
                  /\ canard_rx_subs' = canard_rx_subs]_vars

\* a Response whose transfer id differs from the record was discarded and the
\* subscription is still there
C1_Witness ==
  /\ pc = "receive"
  /\ last.result = 1
  /\ last.transfer.kind = "Response"
  /\ last.invoked = <<>>
  /\ rx_transfer_map[last.transfer.port] # NoEntry
  /\ tx_transfer_map[last.transfer.port] # NoRecord
  /\ tx_transfer_map[last.transfer.port] # last.transfer.transfer_id

(***************************************************************************)
(* C2: a matching Response invokes the callback exactly once and leaves    *)
(* no registry entry for its port, whatever the callback did; a Response   *)
(* with the same port and transfer id that follows it invokes nothing.     *)
(***************************************************************************)
C2_ResponseSingleShot ==
  [][/\ (DispatchStep /\ Reassembled /\ Accepted.transfer.kind = "Response"
          /\ Registered(Accepted.transfer.port) /\ Pending(Accepted.transfer))
         => /\ Len(last'.invoked) = 1
            /\ rx_transfer_map'[Accepted.transfer.port] = NoEntry
     /\ (DispatchStep /\ last.transfer.kind = "Response" /\ last.invoked # <<>>
          /\ Head(rx_queue).kind = "Response"
          /\ Head(rx_queue).port = last.transfer.port
          /\ Head(rx_queue).transfer_id = last.transfer.transfer_id)
         => last'.invoked = <<>>]_vars

\* the callback of a matching Response subscribed again on the port, and the
\* port is unsubscribed all the same
C2_Witness ==
  /\ last.transfer.kind = "Response"
  /\ Len(last.invoked) = 1
  /\ last.act = "subscribe"
  /\ rx_transfer_map[last.transfer.port] = NoEntry

(***************************************************************************)
(* C3: a reassembled Message or Request on a registered port invokes that  *)
(* port's callback exactly once with that transfer, and receiveOne itself  *)
(* leaves the subscription in place (the entry is gone afterwards only if  *)
(* the callback unsubscribed it); every receiveOne consumes its frame and  *)
(* invokes at most one callback.                                           *)
(***************************************************************************)
C3_MessageDispatch ==
  [][/\ (DispatchStep /\ Reassembled
          /\ Accepted.transfer.kind \in {"Message", "Request"}
          /\ Registered(Accepted.transfer.port))
         => /\ last'.invoked = <<rx_transfer_map[Accepted.transfer.port]>>
            /\ last'.transfer = Accepted.transfer
            /\ last'.act # "unsubscribe"
                 => rx_transfer_map'[Accepted.transfer.port] # NoEntry
            /\ last'.act = "none"
                 => /\ rx_transfer_map' = rx_transfer_map
                    /\ canard_rx_subs' = canard_rx_subs
     /\ DispatchStep
         => /\ Len(last'.invoked) <= 1
            /\ rx_queue' = Tail(rx_queue)]_vars

\* a Request was handed to the callback of its port, which is still registered
C3_Witness ==
  /\ last.transfer.kind = "Request"
  /\ last.act = "none"
  /\ last.invoked = <<"cbA">>
  /\ rx_transfer_map[last.transfer.port] = "cbA"

(***************************************************************************)
(* C4: every reassembled transfer has its payload released exactly once,   *)
(* whichever way it is dispatched; a transfer on a port without registry   *)
(* entry invokes no callback; a frame that completes no transfer causes no *)
(* release and no callback.                                                *)
(***************************************************************************)
C4_PayloadReleasedOnce ==
  [][DispatchStep
       => /\ Reassembled => last'.n_free = 1
          /\ (Reassembled /\ ~Registered(Accepted.transfer.port))
               => last'.invoked = <<>>
          /\ ~Reassembled => (last'.n_free = 0 /\ last'.invoked = <<>>)]_vars

\* a transfer the codec reassembled for a port that has no registry entry:
\* released, no callback
C4_Witness ==
  /\ last.result = 1
  /\ last.transfer.kind = "Message"
  /\ last.invoked = <<>>
  /\ last.n_free = 1

(***************************************************************************)
(* C5: the n-th getNextTransferId call for a port returns (n - 1) mod M,   *)
(* with M the modulus of the allocator, whatever calls were made for other *)
(* ports in between; a call for one port leaves the other ports' records.  *)
(***************************************************************************)
C5_TransferIdSequence ==
  [][\A p \in Ports :
       tid_calls'[p] # tid_calls[p]
         => /\ ret' = <<tid_calls[p] % CANARD_TRANSFER_ID_MAX>>
            /\ tx_transfer_map'[p] = ret'[1]
            /\ tid_calls[p] = 0 => ret' = <<0>>
            /\ tid_calls[p] > 0
                 => ret' = <<(tx_transfer_map[p] + 1) % CANARD_TRANSFER_ID_MAX>>
            /\ \A q \in Ports \ {p} :
                 tx_transfer_map'[q] = tx_transfer_map[q]]_vars

\* the sequence of a port has wrapped to 0 while another port was used too
C5_Witness ==
  /\ tid_calls[1] = CANARD_TRANSFER_ID_MAX + 1
  /\ ret = <<0>>
  /\ tx_transfer_map[1] = 0
  /\ tid_calls[2] = 2
  /\ tx_transfer_map[2] = 1

(***************************************************************************)
(* C6: the registry holds for each port the callback of the most recent    *)
(* subscribe call on it, and no entry when the most recent call on it was  *)
(* an unsubscribe; a transfer invokes the callback registered last.        *)
(***************************************************************************)
C6_RegistryReflectsLastCall ==
  [][/\ \A p \in Ports : rx_transfer_map'[p] = latest'[p]
     /\ (DispatchStep /\ ~Reassembled) => last'.invoked = <<>>
     /\ (DispatchStep /\ Reassembled)
         => \A i \in 1..Len(last'.invoked) :
              last'.invoked[i] = latest[Accepted.transfer.port]]_vars

\* a callback subscribed another callback on its own port, which replaced it
C6_Witness ==
  /\ last.transfer.kind = "Message"
  /\ last.invoked = <<"cbB">>
  /\ last.act = "subscribe"
  /\ rx_transfer_map[last.transfer.port] = "cbA"

(***************************************************************************)
(* C7: unsubscribe removes the registry entry of the port whether or not   *)
(* the codec's deregistration succeeds, and returns true exactly when the  *)
(* codec's result is not negative.                                         *)
(***************************************************************************)
C7_UnsubscribeUnconditional ==
  [][\A s \in RxSubscriptions :
       Unsubscribe(s[1], s[2])
         => /\ rx_transfer_map'[s[2]] = NoEntry
            /\ \A p \in Ports \ {s[2]} :
                 rx_transfer_map'[p] = rx_transfer_map[p]
            /\ (ret' = <<1>>) <=>
                 (canardRxUnsubscribe(canard_rx_subs, s[1], s[2]).result >= 0)
            /\ ret' \in {<<0>>, <<1>>}]_vars

\* the codec refused an unsubscribe, the registry is empty and the codec still
\* holds a subscription
C7_Witness ==
  /\ pc = "idle"
  /\ ret = <<0>>
  /\ \A p \in Ports : rx_transfer_map[p] = NoEntry /\ tid_calls[p] = 0
  /\ <<"Message", 1>> \in canard_rx_subs

(***************************************************************************)
(* Observations on the egress queue                                        *)
(***************************************************************************)
Queued == {tx_queue[i].seq : i \in 1..Len(tx_queue)}
Sent == {tx_log[i] : i \in 1..Len(tx_log)}
\* position of the frame with the sequence number in a queue, 0 if absent
QueuePos(q, seq) ==
  IF \E i \in 1..Len(q) : q[i].seq = seq
    THEN CHOOSE i \in 1..Len(q) : q[i].seq = seq
    ELSE 0

(***************************************************************************)
(* C8: when the transmit function refuses the frame at the head of the     *)
(* queue, draining stops and the queue is left as it was; the refused      *)
(* frame is the next one transmitted; no frame is transmitted twice, and   *)
(* with spin() called repeatedly and a transmit function that does not     *)
(* refuse for ever every queued frame is eventually transmitted.           *)
(***************************************************************************)
C8_Backpressure ==
  /\ [][(pc = "transmit" /\ pc' # "transmit" /\ transmit_func
          /\ tx_queue # <<>>)
         => /\ tx_queue' = tx_queue
            /\ tx_log' = tx_log
            /\ blocked' = Head(tx_queue).seq]_vars
  /\ [][tx_log' # tx_log
         => /\ pc = "transmit" /\ pc' = "transmit"
            /\ tx_queue # <<>>
            /\ tx_log' = Append(tx_log, Head(tx_queue).seq)
            /\ tx_queue' = Tail(tx_queue)
            /\ blocked # 0 => Head(tx_queue).seq = blocked]_vars
  /\ [](/\ Queued \cap Sent = {}
        /\ Cardinality(Sent) = Len(tx_log)
        /\ Cardinality(Queued) = Len(tx_queue))
  /\ \A seq \in 1..MaxEnqueued :
       (transmit_func /\ seq \in Queued) ~> (seq \in Sent)

\* a refused frame is still at the head of the queue, another one behind it
C8_Witness ==
  /\ pc = "idle"
  /\ blocked # 0
  /\ Len(tx_queue) = 2
  /\ Head(tx_queue).seq = blocked
  /\ tx_log = <<>>

(***************************************************************************)
(* C9: frames leave the queue in the order of (priority, enqueue           *)
(* sequence); every frame pushed by enqeueTransfer has the nominal         *)
(* priority, so frames are transmitted in the order they were enqueued,    *)
(* each once, all before any frame still queued.                           *)
(***************************************************************************)
C9_EgressOrder ==
  /\ \A i, j \in 1..Len(tx_log) : i < j => tx_log[i] < tx_log[j]
  /\ \A i \in 1..Len(tx_log), j \in 1..Len(tx_queue) :
       tx_log[i] < tx_queue[j].seq
  /\ \A i, j \in 1..Len(tx_queue) :
       i < j => \/ tx_queue[i].priority < tx_queue[j].priority
                \/ /\ tx_queue[i].priority = tx_queue[j].priority
                   /\ tx_queue[i].seq < tx_queue[j].seq
  /\ \A i \in 1..Len(tx_queue) : tx_queue[i].priority = CanardPriorityNominal

\* two transfers were pushed and drained, in the order they were pushed
C9_Witness ==
  /\ tx_log = <<1, 2>>
  /\ tx_queue = <<>>
  /\ pc = "idle"

(***************************************************************************)
(* C10: spin() drains the ingress buffer before it touches the egress      *)
(* queue, so when spin() returns every frame a callback pushed during it   *)
(* has been accepted by the transmit function, unless the transmit         *)
(* function refused that frame or one ahead of it in the queue.            *)
(***************************************************************************)
C10_AnsweredInSameSpin ==
  /\ [][(pc # "transmit" /\ pc' = "transmit")
         => (pc = "receive" /\ rx_queue = <<>>)]_vars
  /\ [][pc # "transmit" => (tx_log' = tx_log /\ blocked' = blocked)]_vars
  /\ [][pc # "receive" => last' = last]_vars
  /\ [][(pc # "idle" /\ pc' = "idle" /\ transmit_func)
         => \A seq \in spin_enq :
              \/ seq \in Sent'
              \/ /\ blocked' # 0
                 /\ QueuePos(tx_queue', blocked') >= 1
                 /\ QueuePos(tx_queue', blocked') <= QueuePos(tx_queue', seq)]_vars

\* the answer to a request was pushed by the callback and transmitted before
\* spin() returned
C10_Witness ==
  /\ pc = "idle"
  /\ spin_enq # {}
  /\ spin_enq \subseteq Sent
  /\ transmit_func

(***************************************************************************)
(* Observations on the ingress buffer                                      *)
(***************************************************************************)
\* a frame entered the buffer
ArrivalStep == Len(rx_queue') = Len(rx_queue) + 1
\* the drain loop dequeued a frame and handed it to receiveOne
DequeueStep == pc = "dequeue" /\ pc' = "receive"
\* number of payload bytes the buffer keeps of a frame
Copied(entry) ==
  IF entry.payload_size < RxPayloadSize THEN entry.payload_size
  ELSE RxPayloadSize

(***************************************************************************)
(* C11: a frame accepted into the ingress buffer goes behind the frames    *)
(* buffered before it; the drain loop hands the codec the frame at the     *)
(* head and removes exactly that frame, so every accepted frame reaches    *)
(* the codec once, in the order of the onCanFrameReceived calls; nothing   *)
(* else touches the buffer or calls the codec, and the receive phase ends  *)
(* only on an empty buffer.                                                *)
(***************************************************************************)
C11_IngressOrder ==
  /\ [][ArrivalStep
         => /\ Len(rx_queue) < rx_capacity
            /\ SubSeq(rx_queue', 1, Len(rx_queue)) = rx_queue]_vars
  /\ [][DequeueStep
         => /\ rx_queue # <<>>
            /\ rx_queue' = Tail(rx_queue)
            /\ last'.result = Accepted.result
            /\ last'.transfer = Accepted.transfer
            /\ last'.payload_size = Head(rx_queue).payload_size
            /\ SubSeq(last'.payload, 1, Copied(Head(rx_queue)))
                 = SubSeq(Head(rx_queue).payload, 1, Copied(Head(rx_queue)))]_vars
  /\ [][rx_queue' # rx_queue => (ArrivalStep \/ DequeueStep)]_vars
  /\ [][last' # last => (DequeueStep \/ last' = NoDispatch)]_vars
  /\ [][(pc = "receive" /\ pc' \notin {"receive", "dequeue"})
         => rx_queue = <<>>]_vars

\* of two frames buffered in one microsecond the first has been handed to the
\* codec and the second is now at the head of the buffer
C11_Witness ==
  /\ pc = "receive"
  /\ micros = 0
  /\ last.payload_size = 1
  /\ last.payload = InPayload(1)
  /\ Len(rx_queue) = 1
  /\ Head(rx_queue).payload = InPayload(8)

(***************************************************************************)
(* C12: a call of onCanFrameReceived that buffers a frame changes the      *)
(* ingress buffer and nothing else: the codec, the callbacks and the       *)
(* transmit function are not invoked, and the subscription registry, the   *)
(* codec's subscriptions, the per-port transfer ids, the egress queue, the *)
(* node id and the position of the cooperative context stay as they were.  *)
(* (A call that finds the buffer full changes nothing at all.)             *)
(***************************************************************************)
C12_OnlyIngressBuffer ==
  [][ArrivalStep
       => /\ SubSeq(rx_queue', 1, Len(rx_queue)) = rx_queue
          /\ last' = last
          /\ tx_log' = tx_log
          /\ blocked' = blocked
          /\ rx_transfer_map' = rx_transfer_map
          /\ canard_rx_subs' = canard_rx_subs
          /\ tx_transfer_map' = tx_transfer_map
          /\ tx_queue' = tx_queue
          /\ next_seq' = next_seq
          /\ node_id' = node_id
          /\ pc' = pc]_vars

\* a frame arrived while spin() was draining the egress queue of a node that
\* has a subscription, an issued transfer id and a changed node id
C12_Witness ==
  /\ pc = "transmit"
  /\ rx_queue # <<>>
  /\ tx_queue # <<>>
  /\ rx_transfer_map[1] # NoEntry
  /\ tx_transfer_map[2] # NoRecord
  /\ node_id = 2

(***************************************************************************)
(* C13: the buffer never holds more frames than its capacity, and a call   *)
(* of onCanFrameReceived that finds it at capacity tells its caller that   *)
(* the frame was not buffered: it returns a rejection, or it leaves a      *)
(* change in the node that the caller can read back (a drop count).  The   *)
(* call is one step, it does not wait for room.                            *)
(***************************************************************************)
C13_DropObservable ==
  /\ Len(rx_queue) <= rx_capacity
  /\ \A frame \in InFrames :
       LET call == onCanFrameReceived(rx_queue, frame, micros)
       IN  Len(rx_queue) = rx_capacity
             => \/ call.ret # NoReturn
                \/ call.rx_queue # rx_queue

\* the buffer is at capacity and the driver has a further frame
C13_Witness ==
  /\ Len(rx_queue) = rx_capacity
  /\ pc = "dequeue"

C15_RecordIsLastRequest ==
  [][/\ \A p \in Ports : tx_transfer_map'[p] = request_tid'[p]
     /\ (DispatchStep /\ Reassembled /\ Accepted.transfer.kind = "Response"
          /\ Registered(Accepted.transfer.port))
         => ((last'.invoked # <<>>)
               <=> /\ request_tid[Accepted.transfer.port] # NoRecord
                   /\ request_tid[Accepted.transfer.port]
                        = Accepted.transfer.transfer_id)]_vars

\* the Response to the last Request was discarded: an id allocated for a
\* Message on the same port id had replaced the record
C15_Witness ==
  /\ last.result = 1
  /\ last.transfer.kind = "Response"
  /\ last.invoked = <<>>
  /\ rx_transfer_map[last.transfer.port] # NoEntry
  /\ request_tid[last.transfer.port] = last.transfer.transfer_id
  /\ tx_transfer_map[last.transfer.port] # last.transfer.transfer_id

(***************************************************************************)
(* C16: the timestamp handed to the codec with a frame is the arrival      *)
(* timestamp onCanFrameReceived was given for that frame, however long the *)
(* frame waited in the ingress buffer.                                     *)
(***************************************************************************)
C16_ArrivalTimestampKept ==
  [][DequeueStep
       => last'.rx_timestamp_us = Head(rx_queue).rx_timestamp_us]_vars

\* the frame about to be dequeued has waited while the clock advanced
C16_Witness ==
  /\ pc = "dequeue"
  /\ Head(rx_queue).rx_timestamp_us < micros

(***************************************************************************)
(* C17: a subscribe call that returns false leaves the registry as it was  *)
(* before the call: no entry is created for the port and an existing       *)
(* entry keeps its callback.                                               *)
(***************************************************************************)
C17_FailedSubscribeNoEffect ==
  [][\A s \in RxSubscriptions, f \in Callbacks :
       (Subscribe(s[1], s[2], f) /\ ret' = <<0>>)
         => rx_transfer_map' = rx_transfer_map]_vars

\* a subscribe the codec rejected has replaced the callback of a live
\* subscription
C17_Witness ==
  /\ pc = "idle"
  /\ ret = <<0>>
  /\ canard_rx_subs = {<<"Message", 1>>}
  /\ rx_transfer_map[1] = "cbB"
  /\ latest = [p \in Ports |-> IF p = 1 THEN "cbB" ELSE NoEntry]
  /\ \A p \in Ports : tid_calls[p] = 0

(***************************************************************************)
(* C18: the registry and the codec agree after every subscribe and         *)
(* unsubscribe call: a port has a registry entry exactly when the codec    *)
(* holds a subscription for it, and the codec holds at most one            *)
(* subscription per port, the one that owns the port's entry.              *)
(***************************************************************************)
C18_RegistryAgreesWithCodec ==
  \A p \in Ports :
    /\ (rx_transfer_map[p] # NoEntry)
         <=> (\E k \in TransferKinds : <<k, p>> \in canard_rx_subs)
    /\ Cardinality({k \in TransferKinds : <<k, p>> \in canard_rx_subs}) <= 1

\* unsubscribe(Request, 1) after subscribe(Message, 1) reported success and
\* erased the entry of a subscription the codec still holds
C18_Witness ==
  /\ pc = "idle"
  /\ ret = <<1>>
  /\ latest[1] = NoEntry
  /\ rx_transfer_map[1] = NoEntry
  /\ canard_rx_subs = {<<"Message", 1>>}
  /\ \A p \in Ports : tid_calls[p] = 0

(***************************************************************************)
(* C19: for every frame handed to the codec the payload_size it declares   *)
(* is at most the 8 payload bytes the ingress buffer keeps of a frame, and *)
(* the bytes the codec reads are the first payload_size bytes of the frame *)
(* that was passed to onCanFrameReceived, for every payload_size up to the *)
(* MTU the node may be constructed with.                                   *)
(***************************************************************************)
C19_PayloadWithinBuffer ==
  [][DequeueStep
       => /\ last'.payload_size <= RxPayloadSize
          /\ last'.payload = InPayload(Head(rx_queue).payload_size)]_vars

\* a frame of more than 8 payload bytes is buffered and about to be dequeued
C19_Witness ==
  /\ pc = "dequeue"
  /\ Head(rx_queue).payload_size > RxPayloadSize
  /\ Head(rx_queue).payload_size <= CANARD_MTU_CAN_FD

(***************************************************************************)
(* C20: the calls of getNextTransferId for a port return every transfer id *)
(* of the codec's range 0 .. CANARD_TRANSFER_ID_MAX in turn before they    *)
(* return 0 again, and never a value outside that range.                   *)
(***************************************************************************)
C20_FullTransferIdRange ==
  [][\A p \in Ports :
       tid_calls'[p] # tid_calls[p]
         => /\ ret'[1] \in 0..CANARD_TRANSFER_ID_MAX
            /\ ret' = <<tid_calls[p] % (CANARD_TRANSFER_ID_MAX + 1)>>]_vars

\* the call after the one that returned CANARD_TRANSFER_ID_MAX - 1 returned 0
C20_Witness ==
  /\ tid_calls[1] = CANARD_TRANSFER_ID_MAX + 1
  /\ ret = <<0>>
  /\ tid_calls[2] = 0

====
